---- MODULE Spec2Model ----
(***************************************************************************)
(* Model of compare_images.py: the extraction of a question list from the  *)
(* text of a chat completion (get_comparison_questions), the per-question  *)
(* LEFT/RIGHT evaluation loop (execute_visprog_comparison) and the driver  *)
(* (compare_images, __main__).                                             *)
(*                                                                         *)
(* Python strings are sequences of one-character strings.  The string and  *)
(* JSON operators below are exact for the texts the program is run on      *)
(* here (Contents, ResponseTexts, Answers): these contain no backslash, so *)
(* JSON escape sequences do not arise, and their only whitespace           *)
(* characters are the space and the newline.                               *)
(***************************************************************************)
EXTENDS Integers, Sequences, FiniteSets, TLC

VARIABLES
  pc,                  \* position of the program
  files,               \* the file system: state of each of the three paths
  encoded,             \* paths read by encode_image_to_base64, in call order
  posted,              \* number of requests sent by requests.post
  status_code,         \* res.status_code (0 before the request)
  content,             \* the completion text
  questions,           \* the list get_comparison_questions returns
  ret,                 \* source line of the return statement that returned it
  out,                 \* everything printed so far, in order
  raised,              \* the exception propagating out of compare_images
  raisedLine,          \* source line that raised it
  idx,                 \* i of enumerate(questions, 1)
  difference_counter,
  left_ans,
  right_ans,
  executed             \* programs handed to interpreter.execute, in call order

vars == <<pc, files, encoded, posted, status_code, content, questions, ret, out,
          raised, raisedLine, idx, difference_counter, left_ans, right_ans,
          executed>>

----------------------------------------------------------------------------
(* Python values.  One record shape for every value so that values of      *)
(* different Python types can be compared: t is the type, s the characters *)
(* of a str (or the literal text of a number / constant, or the key of a   *)
(* dict entry), items the elements of a list or the entries of a dict.     *)

StrVal(chars) == [t |-> "str", s |-> chars, items |-> <<>>]
NumVal(chars) == [t |-> "num", s |-> chars, items |-> <<>>]
ConstVal(chars) == [t |-> "const", s |-> chars, items |-> <<>>]
ListVal(elems) == [t |-> "list", s |-> <<>>, items |-> elems]
DictVal(entries) == [t |-> "dict", s |-> <<>>, items |-> entries]
EntryVal(key, v) == [t |-> "entry", s |-> key, items |-> <<v>>]
NoVal == [t |-> "none", s |-> <<>>, items |-> <<>>]

----------------------------------------------------------------------------
(* str methods *)

\* the characters str.strip() with no argument removes
Whitespace == {" ", "\n", "\t", "\r"}

RECURSIVE LStripChars(_, _)
LStripChars(s, cs) ==
  IF s # <<>> /\ Head(s) \in cs THEN LStripChars(Tail(s), cs) ELSE s

RECURSIVE RStripChars(_, _)
RStripChars(s, cs) ==
  IF s # <<>> /\ s[Len(s)] \in cs
    THEN RStripChars(SubSeq(s, 1, Len(s) - 1), cs) ELSE s

\* s.strip(chars): removes from both ends every character that is in the SET
\* of characters of the argument
StripChars(s, cs) == RStripChars(LStripChars(s, cs), cs)

\* s.strip()
Strip(s) == StripChars(s, Whitespace)

\* s.startswith(p)
StartsWith(s, p) == Len(s) >= Len(p) /\ SubSeq(s, 1, Len(p)) = p

\* s[i:i+len(p)] == p   (1-based i)
MatchAt(s, i, p) == i + Len(p) - 1 <= Len(s) /\ SubSeq(s, i, i + Len(p) - 1) = p

\* the backtick character (TLA+ string literals cannot contain it, so the
\* character is named)
BT == "BACKTICK"

FENCE_JSON == <<BT, BT, BT, "j", "s", "o", "n">>
FENCE == <<BT, BT, BT>>

\* the character sets of the arguments of the two fence-stripping strip calls
FenceJsonChars == {FENCE_JSON[k] : k \in 1..Len(FENCE_JSON)}
FenceChars == {FENCE[k] : k \in 1..Len(FENCE)}

\* the opening fence removed as a prefix, the closing fence left in place
StripJsonFence_PrefixOnly(s) ==
  Strip(IF StartsWith(s, FENCE_JSON) THEN SubSeq(s, Len(FENCE_JSON) + 1, Len(s)) ELSE s)

\* content.strip().strip(FENCE_JSON).strip(FENCE).strip()
StripJsonFence(s) == Strip(StripChars(StripChars(s, FenceJsonChars), FenceChars))

\* stripped.strip(FENCE).strip()
StripPlainFence(s) == Strip(StripChars(s, FenceChars))

\* str.splitlines(): the only line boundary of the alphabet is the newline; no
\* empty last line is produced for a trailing boundary, and the empty text has
\* no lines
RECURSIVE SplitLinesFrom(_, _, _)
SplitLinesFrom(s, i, cur) ==
  IF i > Len(s) THEN (IF cur = <<>> THEN <<>> ELSE <<cur>>)
  ELSE IF s[i] = "\n" THEN <<cur>> \o SplitLinesFrom(s, i + 1, <<>>)
  ELSE SplitLinesFrom(s, i + 1, Append(cur, s[i]))

SplitLines(s) == SplitLinesFrom(s, 1, <<>>)

\* '.' in line
HasDot(line) == \E k \in 1..Len(line) : line[k] = "."

\* line.split('.', 1)[1]   (defined when HasDot(line))
AfterFirstDot(line) ==
  LET k == CHOOSE j \in 1..Len(line) :
             line[j] = "." /\ \A m \in 1..(j - 1) : line[m] # "."
  IN SubSeq(line, k + 1, Len(line))

LowerChar(c) ==
  CASE c = "A" -> "a" [] c = "B" -> "b" [] c = "C" -> "c" [] c = "D" -> "d"
    [] c = "E" -> "e" [] c = "F" -> "f" [] c = "G" -> "g" [] c = "H" -> "h"
    [] c = "I" -> "i" [] c = "J" -> "j" [] c = "K" -> "k" [] c = "L" -> "l"
    [] c = "M" -> "m" [] c = "N" -> "n" [] c = "O" -> "o" [] c = "P" -> "p"
    [] c = "Q" -> "q" [] c = "R" -> "r" [] c = "S" -> "s" [] c = "T" -> "t"
    [] c = "U" -> "u" [] c = "V" -> "v" [] c = "W" -> "w" [] c = "X" -> "x"
    [] c = "Y" -> "y" [] c = "Z" -> "z" [] OTHER -> c

\* s.lower()
Lower(s) == [k \in 1..Len(s) |-> LowerChar(s[k])]

\* str(v): a str is itself; a number or constant prints as its literal text
PyStr(v) == v.s

----------------------------------------------------------------------------
(* json.loads *)

JsonWs == {" ", "\t", "\n", "\r"}
Digits == {"0", "1", "2", "3", "4", "5", "6", "7", "8", "9"}
\* characters a JSON string may not contain unescaped (strict mode)
ControlChars == {"\n", "\t", "\r"}

ParseFail == [ok |-> FALSE, val |-> NoVal, end |-> 0]
ParseOk(v, e) == [ok |-> TRUE, val |-> v, end |-> e]

\* first index >= i that is not JSON whitespace (Len(s)+1 if none)
RECURSIVE SkipWs(_, _)
SkipWs(s, i) ==
  IF i <= Len(s) /\ s[i] \in JsonWs THEN SkipWs(s, i + 1) ELSE i

\* index of the quote closing a string whose body starts at i; 0 when the
\* string is unterminated or contains a control character
RECURSIVE ScanString(_, _)
ScanString(s, i) ==
  IF i > Len(s) THEN 0
  ELSE IF s[i] = "\"" THEN i
  ELSE IF s[i] \in ControlChars THEN 0
  ELSE ScanString(s, i + 1)

RECURSIVE DigitsEnd(_, _)
DigitsEnd(s, i) ==
  IF i <= Len(s) /\ s[i] \in Digits THEN DigitsEnd(s, i + 1) ELSE i

\* NUMBER_RE = (-?(?:0|[1-9]\d*))(\.\d+)?([eE][-+]?\d+)? matched at i:
\* the index after the match, 0 when there is no match
NumberEnd(s, i) ==
  LET a == IF i <= Len(s) /\ s[i] = "-" THEN i + 1 ELSE i
      b == IF a <= Len(s) /\ s[a] = "0" THEN a + 1
           ELSE IF a <= Len(s) /\ s[a] \in Digits THEN DigitsEnd(s, a)
           ELSE 0
      c == IF b # 0 /\ b <= Len(s) /\ s[b] = "." /\ DigitsEnd(s, b + 1) > b + 1
             THEN DigitsEnd(s, b + 1) ELSE b
      g == IF c + 1 <= Len(s) /\ s[c + 1] \in {"+", "-"} THEN c + 2 ELSE c + 1
      d == IF c # 0 /\ c <= Len(s) /\ s[c] \in {"e", "E"} /\ DigitsEnd(s, g) > g
             THEN DigitsEnd(s, g) ELSE c
  IN d

LIT_NULL == <<"n", "u", "l", "l">>
LIT_TRUE == <<"t", "r", "u", "e">>
LIT_FALSE == <<"f", "a", "l", "s", "e">>
LIT_NAN == <<"N", "a", "N">>
LIT_INF == <<"I", "n", "f", "i", "n", "i", "t", "y">>
LIT_NEGINF == <<"-">> \o LIT_INF

\* dict[key] = v : a repeated key keeps its position and takes the new value
DictPut(entries, key, v) ==
  IF \E k \in 1..Len(entries) : entries[k].s = key
    THEN [k \in 1..Len(entries) |->
            IF entries[k].s = key THEN EntryVal(key, v) ELSE entries[k]]
    ELSE Append(entries, EntryVal(key, v))

RECURSIVE ParseValue(_, _)
RECURSIVE ParseArrayRest(_, _, _)
RECURSIVE ParseObjectRest(_, _, _)

\* JSONArray, called with s[i] the opening bracket
ParseArray(s, i) ==
  LET j == SkipWs(s, i + 1)
  IN IF j <= Len(s) /\ s[j] = "]" THEN ParseOk(ListVal(<<>>), j + 1)
     ELSE ParseArrayRest(s, j, <<>>)

\* the loop of JSONArray: a value at j, then the closing bracket, or a comma
\* and the next value
ParseArrayRest(s, j, acc) ==
  LET r == ParseValue(s, j)
  IN IF ~r.ok THEN ParseFail
     ELSE LET k == SkipWs(s, r.end)
          IN IF k > Len(s) THEN ParseFail
             ELSE IF s[k] = "]" THEN ParseOk(ListVal(Append(acc, r.val)), k + 1)
             ELSE IF s[k] # "," THEN ParseFail
             ELSE ParseArrayRest(s, SkipWs(s, k + 1), Append(acc, r.val))

\* JSONObject, called with s[i] the opening brace
ParseObject(s, i) ==
  LET j == SkipWs(s, i + 1)
  IN IF j <= Len(s) /\ s[j] = "}" THEN ParseOk(DictVal(<<>>), j + 1)
     ELSE IF j > Len(s) \/ s[j] # "\"" THEN ParseFail
     ELSE ParseObjectRest(s, j, <<>>)

\* the loop of JSONObject: a key string at j, a colon, a value, then the
\* closing brace or a comma
ParseObjectRest(s, j, acc) ==
  LET q == ScanString(s, j + 1)
  IN IF q = 0 THEN ParseFail
     ELSE LET c == SkipWs(s, q + 1)
          IN IF c > Len(s) \/ s[c] # ":" THEN ParseFail
             ELSE LET r == ParseValue(s, SkipWs(s, c + 1))
                  IN IF ~r.ok THEN ParseFail
                     ELSE LET k == SkipWs(s, r.end)
                              e == DictPut(acc, SubSeq(s, j + 1, q - 1), r.val)
                              m == SkipWs(s, k + 1)
                          IN IF k > Len(s) THEN ParseFail
                             ELSE IF s[k] = "}" THEN ParseOk(DictVal(e), k + 1)
                             ELSE IF s[k] # "," THEN ParseFail
                             ELSE IF m > Len(s) \/ s[m] # "\"" THEN ParseFail
                             ELSE ParseObjectRest(s, m, e)

\* scan_once: the value starting exactly at index i
ParseValue(s, i) ==
  IF i > Len(s) THEN ParseFail
  ELSE IF s[i] = "\"" THEN
         LET q == ScanString(s, i + 1)
         IN IF q = 0 THEN ParseFail
            ELSE ParseOk(StrVal(SubSeq(s, i + 1, q - 1)), q + 1)
  ELSE IF s[i] = "{" THEN ParseObject(s, i)
  ELSE IF s[i] = "[" THEN ParseArray(s, i)
  ELSE IF MatchAt(s, i, LIT_NULL) THEN ParseOk(ConstVal(LIT_NULL), i + 4)
  ELSE IF MatchAt(s, i, LIT_TRUE) THEN ParseOk(ConstVal(LIT_TRUE), i + 4)
  ELSE IF MatchAt(s, i, LIT_FALSE) THEN ParseOk(ConstVal(LIT_FALSE), i + 5)
  ELSE IF NumberEnd(s, i) # 0
         THEN ParseOk(NumVal(SubSeq(s, i, NumberEnd(s, i) - 1)), NumberEnd(s, i))
  ELSE IF MatchAt(s, i, LIT_NAN) THEN ParseOk(NumVal(LIT_NAN), i + 3)
  ELSE IF MatchAt(s, i, LIT_INF) THEN ParseOk(NumVal(LIT_INF), i + 8)
  ELSE IF MatchAt(s, i, LIT_NEGINF) THEN ParseOk(NumVal(LIT_NEGINF), i + 9)
  ELSE ParseFail

\* json.loads(s): leading whitespace, one value, trailing whitespace, end of
\* text; ok = FALSE stands for JSONDecodeError
JsonLoads(s) ==
  LET r == ParseValue(s, SkipWs(s, 1))
  IN IF r.ok /\ SkipWs(s, r.end) = Len(s) + 1 THEN r ELSE ParseFail

----------------------------------------------------------------------------
(* get_comparison_questions, lines 71-113: the extraction of the list *)

\* lines 108-113
FALLBACK_QUESTIONS ==
  << StrVal(<<"W", "h", "a", "t", " ", "o", "b", "j", "e", "c", "t", "s", " ",
               "a", "r", "e", " ", "v", "i", "s", "i", "b", "l", "e", " ", "i",
               "n", " ", "t", "h", "e", " ", "i", "m", "a", "g", "e", "?">>),
     StrVal(<<"W", "h", "a", "t", " ", "a", "r", "e", " ", "t", "h", "e", " ",
               "m", "a", "i", "n", " ", "c", "o", "l", "o", "r", "s", " ", "p",
               "r", "e", "s", "e", "n", "t", "?">>),
     StrVal(<<"W", "h", "a", "t", " ", "a", "c", "t", "i", "o", "n", "s", " ",
               "o", "r", " ", "a", "c", "t", "i", "v", "i", "t", "i", "e", "s",
               " ", "a", "r", "e", " ", "o", "c", "c", "u", "r", "r", "i", "n",
               "g", "?">>),
     StrVal(<<"D", "e", "s", "c", "r", "i", "b", "e", " ", "t", "h", "e", " ",
               "s", "e", "t", "t", "i", "n", "g", " ", "o", "r", " ", "b", "a",
               "c", "k", "g", "r", "o", "u", "n", "d", ".">>) >>

\* one printed line: what was printed, a number and a value printed with it
Line(k, n, v) == [k |-> k, n |-> n, v |-> v]

\* outcome of the body of a try block: it returned qs, it raised, or it ran to
\* its end without returning
Returns(qs) == [kind |-> "return", qs |-> qs]
Raises == [kind |-> "raise", qs |-> <<>>]
Passes == [kind |-> "pass", qs |-> <<>>]

\* the return without the isinstance test: any parsed value is returned, one
\* that is no list as a list of itself
ReturnIfList_AnyValue(v) == Returns(IF v.t = "list" THEN v.items ELSE <<v>>)

\* isinstance(questions, list) followed by return questions (lines 75-76, 89-90)
ReturnIfList(v) == IF v.t = "list" THEN Returns(v.items) ELSE Passes

\* lines 72-76
Tier1Try(c) ==
  IF StartsWith(Strip(c), FENCE_JSON)
    THEN LET r == JsonLoads(StripJsonFence(Strip(c)))
         IN IF r.ok THEN ReturnIfList(r.val) ELSE Raises
    ELSE Passes

\* lines 82-86
Tier2Stripped(c) ==
  IF StartsWith(Strip(c), FENCE_JSON) THEN StripJsonFence(Strip(c))
  ELSE IF StartsWith(Strip(c), FENCE) THEN StripPlainFence(Strip(c))
  ELSE Strip(c)

\* lines 82-90
Tier2Try(c) ==
  LET r == JsonLoads(Tier2Stripped(c))
  IN IF r.ok THEN ReturnIfList(r.val) ELSE Raises

\* line 99: the filter of the list comprehension
IsNumberedLine(line) == HasDot(line) /\ Len(Strip(AfterFirstDot(line))) > 0

\* lines 96-100
NumberedList(c) ==
  LET kept == SelectSeq(SplitLines(Strip(c)), IsNumberedLine)
  IN [k \in 1..Len(kept) |-> StrVal(Strip(AfterFirstDot(kept[k])))]

\* line 101: the least number of entries of an accepted numbered list
MIN_LIST == 3

\* the threshold taken as more than MIN_LIST entries
Tier3Try_Strict(c) ==
  IF Len(NumberedList(c)) > MIN_LIST THEN Returns(NumberedList(c)) ELSE Passes

\* lines 96-102 (nothing in this block raises for a str content)
Tier3Try(c) ==
  IF Len(NumberedList(c)) >= MIN_LIST THEN Returns(NumberedList(c)) ELSE Passes

\* a try block without its except clause
Except91_Missing == [caught |-> FALSE]
Except144_Missing == [caught |-> FALSE]

\* the except clauses of lines 77, 91 and 103: each catches Exception
Except77 == [caught |-> TRUE]
Except91 == [caught |-> TRUE]
Except103 == [caught |-> TRUE]

\* a try block with outcome r whose except clause is h, followed by the code
\* at next: a return leaves the function from line retLine, a caught exception
\* prints msg and goes on at next, an uncaught one leaves the function (the
\* call that raises, json.loads, is two lines above the return)
TryBlock(r, h, retLine, msg, next) ==
  IF r.kind = "return"
    THEN /\ pc' = "print_questions"
         /\ questions' = r.qs
         /\ ret' = retLine
         /\ UNCHANGED <<out, raised, raisedLine>>
  ELSE IF r.kind = "raise" /\ ~h.caught
    THEN /\ pc' = "raised"
         /\ raised' = "JSONDecodeError"
         /\ raisedLine' = retLine - 2
         /\ UNCHANGED <<out, questions, ret>>
  ELSE /\ pc' = next
       /\ out' = IF r.kind = "raise" THEN Append(out, Line(msg, 0, NoVal)) ELSE out
       /\ UNCHANGED <<questions, ret, raised, raisedLine>>

\* lines 71-78
Tier1 ==
  /\ pc = "tier1"
  /\ TryBlock(Tier1Try(content), Except77, 76,
              "Markdown-stripped JSON parse failed", "tier2")
  /\ UNCHANGED <<files, encoded, posted, status_code, content, idx,
                 difference_counter, left_ans, right_ans, executed>>

\* lines 80-92
Tier2 ==
  /\ pc = "tier2"
  /\ TryBlock(Tier2Try(content), Except91, 90, "JSON parse failed", "tier3")
  /\ UNCHANGED <<files, encoded, posted, status_code, content, idx,
                 difference_counter, left_ans, right_ans, executed>>

\* lines 94-104
Tier3 ==
  /\ pc = "tier3"
  /\ TryBlock(Tier3Try(content), Except103, 102,
              "Loose list parse failed", "fallback")
  /\ UNCHANGED <<files, encoded, posted, status_code, content, idx,
                 difference_counter, left_ans, right_ans, executed>>

\* lines 107-113
Fallback ==
  /\ pc = "fallback"
  /\ out' = Append(out, Line("Failed to parse GPT response. Using fallback questions.",
                             0, NoVal))
  /\ questions' = FALLBACK_QUESTIONS
  /\ ret' = 108
  /\ pc' = "print_questions"
  /\ UNCHANGED <<files, encoded, posted, status_code, content, raised,
                 raisedLine, idx, difference_counter, left_ans, right_ans,
                 executed>>

----------------------------------------------------------------------------
(* compare_images and get_comparison_questions up to the completion text *)

\* img1_path, img2_path, diff_path
Paths == {"img1", "img2", "diff"}

\* a path is absent, a readable image, or a readable file that is no image
FileStates == {"missing", "ok", "corrupt"}

\* os.path.exists(p)
Exists(p) == files[p] # "missing"

\* an exception leaves compare_images
Raise(exc, line) ==
  /\ pc' = "raised"
  /\ raised' = exc
  /\ raisedLine' = line

\* the validation with the two tests joined by or: it raises only when both
\* scene images are missing
CompareImages_ChecksBothMissing ==
  /\ pc = "compare_images"
  /\ IF ~(Exists("img1") \/ Exists("img2"))
       THEN /\ Raise("FileNotFoundError", 151)
            /\ UNCHANGED out
       ELSE /\ pc' = "encode"
            /\ out' = Append(out, Line("Getting questions from GPT-4o Vision...",
                                       0, NoVal))
            /\ UNCHANGED <<raised, raisedLine>>
  /\ UNCHANGED <<files, encoded, posted, status_code, content, questions, ret,
                 idx, difference_counter, left_ans, right_ans, executed>>

\* lines 150-153
CompareImages ==
  /\ pc = "compare_images"
  /\ IF ~(Exists("img1") /\ Exists("img2"))
       THEN /\ Raise("FileNotFoundError", 151)
            /\ UNCHANGED out
       ELSE /\ pc' = "encode"
            /\ out' = Append(out, Line("Getting questions from GPT-4o Vision...",
                                       0, NoVal))
            /\ UNCHANGED <<raised, raisedLine>>
  /\ UNCHANGED <<files, encoded, posted, status_code, content, questions, ret,
                 idx, difference_counter, left_ans, right_ans, executed>>

\* lines 38-40 (and 32-34): the three files are read in this order; open()
\* raises for a missing file
Encode ==
  /\ pc = "encode"
  /\ IF Exists("diff")
       THEN /\ encoded' = encoded \o <<"img1", "img2", "diff">>
            /\ pc' = "post"
            /\ UNCHANGED <<raised, raisedLine>>
       ELSE /\ encoded' = encoded \o <<"img1", "img2">>
            /\ Raise("FileNotFoundError", 33)
  /\ UNCHANGED <<files, posted, status_code, content, questions, ret, out, idx,
                 difference_counter, left_ans, right_ans, executed>>

\* the status of a successful request (line 64)
HTTP_OK == 200
\* statuses of failed requests
ErrorStatuses == {401, 500}

\* lines 42-65, the request fails with status st
PostFails(st) ==
  /\ pc = "post"
  /\ posted' = posted + 1
  /\ status_code' = st
  /\ Raise("RuntimeError", 65)
  /\ UNCHANGED <<files, encoded, content, questions, ret, out, idx,
                 difference_counter, left_ans, right_ans, executed>>

\* lines 42-69, the request succeeds with completion text c
PostReturns(c) ==
  /\ pc = "post"
  /\ posted' = posted + 1
  /\ status_code' = HTTP_OK
  /\ content' = c
  /\ out' = Append(out, Line("Raw GPT Response:", 0, StrVal(c)))
  /\ pc' = "tier1"
  /\ UNCHANGED <<files, encoded, questions, ret, raised, raisedLine, idx,
                 difference_counter, left_ans, right_ans, executed>>

\* lines 156-158: the numbered list of the questions
QuestionLines(qs) == [k \in 1..Len(qs) |-> Line("listed", k, qs[k])]

\* lines 154-160
PrintQuestions ==
  /\ pc = "print_questions"
  /\ out' = Append(out, Line("Questions to test:", 0, NoVal)) \o QuestionLines(questions)
  /\ pc' = "load"
  /\ UNCHANGED <<files, encoded, posted, status_code, content, questions, ret,
                 raised, raisedLine, idx, difference_counter, left_ans,
                 right_ans, executed>>

\* lines 169-174
MainCatch ==
  /\ pc = "raised"
  /\ out' = out \o << Line("Error:", raisedLine, StrVal(<<>>)),
                      Line("Make sure:", 0, NoVal),
                      Line("1. Your OpenAI API key is valid in config.py", 0, NoVal),
                      Line("2. The two image files exist", 0, NoVal),
                      Line("3. You are connected to the internet", 0, NoVal) >>
  /\ pc' = "exit"
  /\ UNCHANGED <<files, encoded, posted, status_code, content, questions, ret,
                 raised, raisedLine, idx, difference_counter, left_ans,
                 right_ans, executed>>

----------------------------------------------------------------------------
(* execute_visprog_comparison *)

\* lines 117-126: Image.open raises for a file that is no image
LoadImages ==
  /\ pc = "load"
  /\ IF files["img1"] # "ok" THEN Raise("UnidentifiedImageError", 118) /\ UNCHANGED <<out, idx, difference_counter>>
     ELSE IF files["img2"] # "ok" THEN Raise("UnidentifiedImageError", 119) /\ UNCHANGED <<out, idx, difference_counter>>
     ELSE /\ difference_counter' = 0
          /\ idx' = 1
          /\ out' = Append(out, Line("GPT-Generated Questions & VisProg Results",
                                     0, NoVal))
          /\ pc' = "loop"
          /\ UNCHANGED <<raised, raisedLine>>
  /\ UNCHANGED <<files, encoded, posted, status_code, content, questions, ret,
                 left_ans, right_ans, executed>>

\* lines 127-131: the next question, or the end of the loop, of the function
\* and of compare_images
LoopHead ==
  /\ pc = "loop"
  /\ IF idx <= Len(questions)
       THEN /\ out' = Append(out, Line("Question", idx, questions[idx]))
            /\ pc' = "ask_left"
       ELSE /\ pc' = "exit"
            /\ UNCHANGED out
  /\ UNCHANGED <<files, encoded, posted, status_code, content, questions, ret,
                 raised, raisedLine, idx, difference_counter, left_ans,
                 right_ans, executed>>

\* prog_L / prog_R of lines 130-131: the image the program names and the
\* question formatted into it
Prog(image, question) == [image |-> image, question |-> question]

\* the except clause of line 144: catches Exception
Except144 == [caught |-> TRUE]

\* interpreter.execute raised inside the try block of lines 133-143: lines
\* 144-145 print the error and the loop body goes on at line 146
ExecuteRaised ==
  IF Except144.caught
    THEN /\ out' = Append(out, Line("Error during VisProg execution", 0, NoVal))
         /\ pc' = "total"
         /\ UNCHANGED <<raised, raisedLine>>
    ELSE /\ Raise("Exception", 134)
         /\ UNCHANGED out

\* a handler around the LEFT call alone: the failure becomes the answer and
\* the RIGHT program is run next
AfterLeftRaised_PerImage ==
  /\ left_ans' = StrVal(<<"E", "R", "R", "O", "R">>)
  /\ pc' = "ask_right"
  /\ UNCHANGED <<out, raised, raisedLine>>

\* where the loop body goes on when the LEFT program raised
AfterLeftRaised == ExecuteRaised /\ UNCHANGED left_ans

\* line 134, the LEFT program answers a
AskLeft(a) ==
  /\ pc = "ask_left"
  /\ executed' = Append(executed, Prog("LEFT", questions[idx]))
  /\ left_ans' = a
  /\ pc' = "ask_right"
  /\ UNCHANGED <<files, encoded, posted, status_code, content, questions, ret,
                 out, raised, raisedLine, idx, difference_counter, right_ans>>

\* line 134, the LEFT program raises
AskLeftFails ==
  /\ pc = "ask_left"
  /\ executed' = Append(executed, Prog("LEFT", questions[idx]))
  /\ AfterLeftRaised
  /\ UNCHANGED <<files, encoded, posted, status_code, content, questions, ret,
                 idx, difference_counter, right_ans>>

\* line 135, the RIGHT program answers a
AskRight(a) ==
  /\ pc = "ask_right"
  /\ executed' = Append(executed, Prog("RIGHT", questions[idx]))
  /\ right_ans' = a
  /\ pc' = "compare"
  /\ UNCHANGED <<files, encoded, posted, status_code, content, questions, ret,
                 out, raised, raisedLine, idx, difference_counter, left_ans>>

\* line 135, the RIGHT program raises
AskRightFails ==
  /\ pc = "ask_right"
  /\ executed' = Append(executed, Prog("RIGHT", questions[idx]))
  /\ ExecuteRaised
  /\ UNCHANGED <<files, encoded, posted, status_code, content, questions, ret,
                 idx, difference_counter, left_ans, right_ans>>

\* the normalisation without lower()
norm_NoLower(s) == Strip(PyStr(s))

\* line 140: norm = lambda s: str(s).strip().lower()
norm(s) == Lower(Strip(PyStr(s)))

\* the condition of lines 141 and 143
Differ(l, r) == norm(l) # norm(r)

YES == StrVal(<<"Y", "e", "s">>)
NO == StrVal(<<"N", "o">>)

\* the counter incremented for every answered question
Compare_CountsAll ==
  /\ pc = "compare"
  /\ difference_counter' = difference_counter + 1
  /\ out' = out \o << Line("LEFT", 0, left_ans),
                      Line("RIGHT", 0, right_ans),
                      Line("Different?", 0,
                           IF Differ(left_ans, right_ans) THEN YES ELSE NO) >>
  /\ pc' = "total"
  /\ UNCHANGED <<files, encoded, posted, status_code, content, questions, ret,
                 raised, raisedLine, idx, left_ans, right_ans, executed>>

\* lines 137-143
Compare ==
  /\ pc = "compare"
  /\ difference_counter' =
       IF Differ(left_ans, right_ans) THEN difference_counter + 1
       ELSE difference_counter
  /\ out' = out \o << Line("LEFT", 0, left_ans),
                      Line("RIGHT", 0, right_ans),
                      Line("Different?", 0,
                           IF Differ(left_ans, right_ans) THEN YES ELSE NO) >>
  /\ pc' = "total"
  /\ UNCHANGED <<files, encoded, posted, status_code, content, questions, ret,
                 raised, raisedLine, idx, left_ans, right_ans, executed>>

\* line 146, the last statement of the loop body
PrintTotal ==
  /\ pc = "total"
  /\ out' = Append(out, Line("TOTAL DIFFERENCES FOUND:", difference_counter, NoVal))
  /\ idx' = idx + 1
  /\ pc' = "loop"
  /\ UNCHANGED <<files, encoded, posted, status_code, content, questions, ret,
                 raised, raisedLine, difference_counter, left_ans, right_ans,
                 executed>>

----------------------------------------------------------------------------
(* The inputs: completion texts, question lists, answers *)

\* bounds of the enumerated inputs
MaxRaw == 3        \* length of the texts enumerated character by character
MaxElems == 2      \* elements of a JSON array
MaxLines == 4      \* lines of a numbered list
MaxQuestions == 3  \* questions handed to execute_visprog_comparison alone

SeqsUpTo(S, n) == UNION {[1..k -> S] : k \in 0..n}

RECURSIVE Join(_, _)
Join(texts, sep) ==
  IF texts = <<>> THEN <<>>
  ELSE IF Len(texts) = 1 THEN texts[1]
  ELSE texts[1] \o sep \o Join(Tail(texts), sep)

\* the alphabet of the enumerated texts
RawChars == {BT, "j", "[", "]", "{", "}", "\"", ",", ".", "\n", " ", "1", "A"}

RawTexts == SeqsUpTo(RawChars, MaxRaw)

QA == <<"A", "?">>
QB == <<"B", ".">>

\* elements of the generated arrays: three strings (one empty), a number and
\* null
StringElems == {StrVal(QA), StrVal(QB), StrVal(<<>>)}
ElemVals == StringElems \cup {NumVal(<<"1">>), ConstVal(LIT_NULL)}

\* the JSON text of an element
ElemText(v) == IF v.t = "str" THEN <<"\"">> \o v.s \o <<"\"">> ELSE v.s

Seps == {<<",">>, <<",", "\n">>}

\* the JSON text of the array with elements es, separated by sep
ArrayText(es, sep) ==
  <<"[">> \o Join([k \in 1..Len(es) |-> ElemText(es[k])], sep) \o <<"]">>

ElemLists == SeqsUpTo(ElemVals, MaxElems)
StringLists == SeqsUpTo(StringElems, MaxElems)

ArrayTexts == {ArrayText(es, sep) : es \in ElemLists, sep \in Seps}

\* valid JSON texts that are not arrays: an object, a string, two numbers,
\* null, the empty object, and an object written on three lines
NonArrayTexts ==
  { <<"{", "\"", "n", "\"", ":", " ", "\"", "a", "\"", "}">>,
    <<"\"", "A", "?", "\"">>,
    <<"1">>,
    <<"1", ".", "5">>,
    LIT_NULL,
    <<"{", "}">>,
    <<"{", "\"", "A", ".", "\"", ":", "1", ",", "\n",
           "\"", "B", ".", "\"", ":", "1", ",", "\n",
           "\"", "A", ".", "B", "\"", ":", "1", "}">> }

\* texts that are not JSON
BrokenTexts ==
  { <<"[", "\"", "A", "?", "\"">>, <<"[", "\"", "A", "?", "\"", ",", "]">>, <<"A", "?">> }

\* what surrounds the body of a completion: nothing, a json fence, a plain
\* fence (with or without newlines and outer whitespace), an unclosed json
\* fence, a json fence after a word
Bare == [pre |-> <<>>, post |-> <<>>]
JsonFences ==
  { [pre |-> FENCE_JSON \o <<"\n">>, post |-> <<"\n">> \o FENCE],
    [pre |-> FENCE_JSON, post |-> FENCE],
    [pre |-> <<" ">> \o FENCE_JSON \o <<"\n">>, post |-> <<"\n">> \o FENCE \o <<" ", "\n">>] }
PlainFences ==
  { [pre |-> FENCE \o <<"\n">>, post |-> <<"\n">> \o FENCE],
    [pre |-> FENCE, post |-> FENCE],
    [pre |-> <<"\n">> \o FENCE \o <<" ">>, post |-> <<" ">> \o FENCE \o <<"\n">>] }
OtherWrappers ==
  { [pre |-> FENCE_JSON \o <<"\n">>, post |-> <<>>],
    [pre |-> <<"A", " ">> \o FENCE_JSON \o <<"\n">>, post |-> <<"\n">> \o FENCE] }
Wrappers == {Bare} \cup JsonFences \cup PlainFences \cup OtherWrappers

Wrap(w, body) == w.pre \o body \o w.post

WrappedTexts ==
  {Wrap(w, b) : w \in Wrappers, b \in ArrayTexts \cup NonArrayTexts \cup BrokenTexts}

\* lines of the generated numbered lists: two numbered items, a line without
\* a period, a number with nothing after its period
ListLines ==
  { <<"1", ".", " ", "A", "?">>, <<"2", ".", " ", "B", ".", "A">>,
    <<"A", "?">>, <<"3", ".", " ">> }

ListTexts == {Join(ls, <<"\n">>) : ls \in SeqsUpTo(ListLines, MaxLines)}

\* the completion texts get_comparison_questions is run on
Contents == RawTexts \cup WrappedTexts \cup ListTexts

\* the completion texts of the runs of the whole program: a fenced array, the
\* empty array, a numbered list, an object
ResponseTexts ==
  { Wrap([pre |-> FENCE_JSON \o <<"\n">>, post |-> <<"\n">> \o FENCE],
         ArrayText(<<StrVal(QA), StrVal(QB)>>, <<",">>)),
    <<"[", "]">>,
    Join(<< <<"1", ".", " ", "A", "?">>, <<"2", ".", " ", "B", ".", "A">>,
            <<"3", ".", " ", "A", "?">> >>, <<"\n">>),
    <<"{", "\"", "n", "\"", ":", " ", "\"", "a", "\"", "}">> }

\* the k-th question of the lists handed to execute_visprog_comparison alone
QuestionAt(k) == IF k % 2 = 1 THEN StrVal(QA) ELSE StrVal(QB)
QuestionLists == {[k \in 1..n |-> QuestionAt(k)] : n \in 0..MaxQuestions}

\* the answers of the VQA programs: two that differ only in case and
\* surrounding whitespace, and a different one
Answers == {YES, StrVal(<<" ", "y", "e", "s", " ">>), NO}

----------------------------------------------------------------------------
(* Specifications *)

\* the whole program, from the call of compare_images by __main__
Init ==
  /\ pc = "compare_images"
  /\ files \in [Paths -> FileStates]
  /\ encoded = <<>>
  /\ posted = 0
  /\ status_code = 0
  /\ content = <<>>
  /\ questions = <<>>
  /\ ret = 0
  /\ out = <<>>
  /\ raised = "none"
  /\ raisedLine = 0
  /\ idx = 0
  /\ difference_counter = 0
  /\ left_ans = NoVal
  /\ right_ans = NoVal
  /\ executed = <<>>

Next ==
  \/ CompareImages
  \/ Encode
  \/ \E st \in ErrorStatuses : PostFails(st)
  \/ \E c \in ResponseTexts : PostReturns(c)
  \/ Tier1
  \/ Tier2
  \/ Tier3
  \/ Fallback
  \/ PrintQuestions
  \/ LoadImages
  \/ LoopHead
  \/ \E a \in Answers : AskLeft(a)
  \/ AskLeftFails
  \/ \E a \in Answers : AskRight(a)
  \/ AskRightFails
  \/ Compare
  \/ PrintTotal
  \/ MainCatch

Spec == Init /\ [][Next]_vars

\* get_comparison_questions from line 71 on, for every text of Contents
InitExtract ==
  /\ pc = "tier1"
  /\ files = [p \in Paths |-> "ok"]
  /\ encoded = <<"img1", "img2", "diff">>
  /\ posted = 1
  /\ status_code = HTTP_OK
  /\ content \in Contents
  /\ questions = <<>>
  /\ ret = 0
  /\ out = << Line("Getting questions from GPT-4o Vision...", 0, NoVal),
              Line("Raw GPT Response:", 0, StrVal(content)) >>
  /\ raised = "none"
  /\ raisedLine = 0
  /\ idx = 0
  /\ difference_counter = 0
  /\ left_ans = NoVal
  /\ right_ans = NoVal
  /\ executed = <<>>

NextExtract == Tier1 \/ Tier2 \/ Tier3 \/ Fallback

SpecExtract == InitExtract /\ [][NextExtract]_vars

\* execute_visprog_comparison from line 127 on, for every list of
\* QuestionLists
InitEval ==
  /\ pc = "loop"
  /\ files = [p \in Paths |-> "ok"]
  /\ encoded = <<>>
  /\ posted = 0
  /\ status_code = 0
  /\ content = <<>>
  /\ questions \in QuestionLists
  /\ ret = 0
  /\ out = << Line("GPT-Generated Questions & VisProg Results", 0, NoVal) >>
  /\ raised = "none"
  /\ raisedLine = 0
  /\ idx = 1
  /\ difference_counter = 0
  /\ left_ans = NoVal
  /\ right_ans = NoVal
  /\ executed = <<>>

NextEval ==
  \/ LoopHead
  \/ \E a \in Answers : AskLeft(a)
  \/ AskLeftFails
  \/ \E a \in Answers : AskRight(a)
  \/ AskRightFails
  \/ Compare
  \/ PrintTotal

SpecEval == InitEval /\ [][NextEval]_vars

\* the loop is sequential code: each of its steps is taken once it is enabled
FairSpecEval == SpecEval /\ WF_vars(NextEval)

----------------------------------------------------------------------------
(* Properties of the extraction (SpecExtract) *)

\* the function has returned its list to compare_images
Returned == pc = "print_questions"

\* the four fixed questions, written out as the properties state them
FixedList ==
  << StrVal(<<"W", "h", "a", "t", " ", "o", "b", "j", "e", "c", "t", "s", " ",
               "a", "r", "e", " ", "v", "i", "s", "i", "b", "l", "e", " ", "i",
               "n", " ", "t", "h", "e", " ", "i", "m", "a", "g", "e", "?">>),
     StrVal(<<"W", "h", "a", "t", " ", "a", "r", "e", " ", "t", "h", "e", " ",
               "m", "a", "i", "n", " ", "c", "o", "l", "o", "r", "s", " ", "p",
               "r", "e", "s", "e", "n", "t", "?">>),
     StrVal(<<"W", "h", "a", "t", " ", "a", "c", "t", "i", "o", "n", "s", " ",
               "o", "r", " ", "a", "c", "t", "i", "v", "i", "t", "i", "e", "s",
               " ", "a", "r", "e", " ", "o", "c", "c", "u", "r", "r", "i", "n",
               "g", "?">>),
     StrVal(<<"D", "e", "s", "c", "r", "i", "b", "e", " ", "t", "h", "e", " ",
               "s", "e", "t", "t", "i", "n", "g", " ", "o", "r", " ", "b", "a",
               "c", "k", "g", "r", "o", "u", "n", "d", ".">>) >>

SetMin(S) == CHOOSE x \in S : \A y \in S : x <= y
SetMax(S) == CHOOSE x \in S : \A y \in S : x >= y

\* the k-th smallest element of a set of numbers
Nth(S, k) == CHOOSE x \in S : Cardinality({y \in S : y < x}) = k - 1

\* s without its surrounding spaces and newlines, by position
Trimmed(s) ==
  LET inked == {k \in 1..Len(s) : s[k] \notin {" ", "\n"}}
  IN IF inked = {} THEN <<>> ELSE SubSeq(s, SetMin(inked), SetMax(inked))

\* the lines of a trimmed text, by the positions of its newlines
LinesOf(t) ==
  LET brk == {k \in 1..Len(t) : t[k] = "\n"}
      from(k) == IF k = 1 THEN 1 ELSE Nth(brk, k - 1) + 1
      upto(k) == IF k = Cardinality(brk) + 1 THEN Len(t) ELSE Nth(brk, k) - 1
  IN [k \in 1..(Cardinality(brk) + 1) |-> SubSeq(t, from(k), upto(k))]

\* the trimmed text after the first period of a line (empty when the line has
\* no period)
AfterPeriod(line) ==
  LET dots == {k \in 1..Len(line) : line[k] = "."}
  IN IF dots = {} THEN <<>>
     ELSE Trimmed(SubSeq(line, SetMin(dots) + 1, Len(line)))

\* the numbered-list candidates of a text, in line order
CandidatesOf(c) ==
  LET ls == LinesOf(Trimmed(c))
      hits == {k \in 1..Len(ls) : AfterPeriod(ls[k]) # <<>>}
  IN [j \in 1..Cardinality(hits) |-> StrVal(AfterPeriod(ls[Nth(hits, j)]))]

\* c is body between the two halves of wrapper w
Unwraps(c, w) ==
  /\ Len(c) >= Len(w.pre) + Len(w.post)
  /\ SubSeq(c, 1, Len(w.pre)) = w.pre
  /\ SubSeq(c, Len(c) - Len(w.post) + 1, Len(c)) = w.post
BodyOf(c, w) == SubSeq(c, Len(w.pre) + 1, Len(c) - Len(w.post))

\* bare, or in a json fence, or in a plain fence
BareOrFenced == {Bare} \cup JsonFences \cup PlainFences

\* out has a line that printed k
Printed(k) == \E p \in 1..Len(out) : out[p].k = k

\* C1: for every completion text the extraction returns a non-empty list of
\* non-empty strings (never an empty list, an empty string or a value that is
\* no string).
C1_NonEmptyListOfStrings ==
  Returned =>
    /\ questions # <<>>
    /\ \A k \in 1..Len(questions) :
         questions[k].t = "str" /\ questions[k].s # <<>>

\* C2: the tiers are tried in the order fenced JSON, lenient JSON, numbered
\* list, fixed fallback; a tier either returns or hands over to the next one,
\* no exception of a tier leaves the function, and when no tier accepts the
\* result is the four fixed questions in their order.
C2_Step ==
  /\ pc = "tier1" => (pc' = "tier2" \/ (pc' = "print_questions" /\ ret' = 76))
  /\ pc = "tier2" => (pc' = "tier3" \/ (pc' = "print_questions" /\ ret' = 90))
  /\ pc = "tier3" => (pc' = "fallback" \/ (pc' = "print_questions" /\ ret' = 102))
  /\ pc = "fallback" => (pc' = "print_questions" /\ ret' = 108)
  /\ raised' = "none"
  /\ (pc' = "print_questions" /\ ret' \notin {76, 90, 102}) => questions' = FixedList
  /\ (pc' = "print_questions" /\ ret' \in {76, 90, 102}) => ~Printed("Failed to parse GPT response. Using fallback questions.")'
C2_TiersInOrderNoException == [][C2_Step]_vars

\* C2 witness: both JSON tiers raised, both exceptions were absorbed, and the
\* fixed list was returned
C2_Witness ==
  /\ Returned
  /\ ret = 108
  /\ Printed("Markdown-stripped JSON parse failed")
  /\ Printed("JSON parse failed")
  /\ questions = FixedList

\* C7: when both JSON tiers reject the text, the result is the sequence of
\* numbered-list candidates if there are at least 3 of them, and the four
\* fixed questions if there are 0, 1 or 2.
C7_NumberedListThreshold ==
  (Returned /\ ret \notin {76, 90}) =>
    /\ Len(CandidatesOf(content)) >= 3 => (ret = 102 /\ questions = CandidatesOf(content))
    /\ Len(CandidatesOf(content)) < 3 => (ret = 108 /\ questions = FixedList)

\* C7 witness: a text with exactly 3 candidates was returned as the list
C7_Witness ==
  /\ Returned
  /\ ret = 102
  /\ Len(CandidatesOf(content)) = 3
  /\ questions = <<StrVal(<<"A", "?">>), StrVal(<<"B", ".", "A">>), StrVal(<<"A", "?">>)>>

\* C8: a text that is valid JSON but no array, bare or in a fence, is rejected
\* by both JSON tiers and is not returned as a one-element list; with fewer
\* than 3 candidates the result is the four fixed questions.
C8_NonArrayRejected ==
  \A w \in BareOrFenced :
    (/\ Returned
     /\ Unwraps(content, w)
     /\ JsonLoads(BodyOf(content, w)).ok
     /\ JsonLoads(BodyOf(content, w)).val.t # "list")
    => /\ ret \notin {76, 90}
       /\ questions # <<JsonLoads(BodyOf(content, w)).val>>
       /\ Len(CandidatesOf(content)) < 3 => questions = FixedList

\* C8 witness: the object of the example, in a json fence, gave the fixed list
C8_Witness ==
  /\ Returned
  /\ content = FENCE_JSON \o <<"\n">>
                 \o <<"{", "\"", "n", "\"", ":", " ", "\"", "a", "\"", "}">>
                 \o <<"\n">> \o FENCE
  /\ questions = FixedList

\* C9: a JSON array of strings gives its elements in order, whether it is
\* bare, in a json fence or in a plain fence, with or without surrounding
\* whitespace and newlines.
C9_FencedAsBare ==
  \A w \in BareOrFenced, es \in StringLists, sep \in Seps :
    (Returned /\ content = Wrap(w, ArrayText(es, sep)))
    => (questions = es /\ ret \in {76, 90})

\* C9 witness: a two-element array in a json fence with outer whitespace was
\* returned as its two elements
C9_Witness ==
  /\ Returned
  /\ Len(questions) = 2
  /\ questions[1] # questions[2]
  /\ \E w \in JsonFences, sep \in Seps :
       /\ Head(w.pre) = " "
       /\ content = Wrap(w, ArrayText(questions, sep))

----------------------------------------------------------------------------
(* Properties of the evaluation loop (SpecEval, FairSpecEval) *)

UPPER == <<"A", "B", "C", "D", "E", "F", "G", "H", "I", "J", "K", "L", "M",
           "N", "O", "P", "Q", "R", "S", "T", "U", "V", "W", "X", "Y", "Z">>
LOWER == <<"a", "b", "c", "d", "e", "f", "g", "h", "i", "j", "k", "l", "m",
           "n", "o", "p", "q", "r", "s", "t", "u", "v", "w", "x", "y", "z">>

\* a character in lower case, by its place in the alphabet
InLowerCase(c) ==
  IF \E k \in 1..26 : UPPER[k] = c
    THEN LOWER[CHOOSE k \in 1..26 : UPPER[k] = c] ELSE c

\* an answer trimmed and then lower-cased
Normalized(a) ==
  [k \in 1..Len(Trimmed(a.s)) |-> InLowerCase(Trimmed(a.s)[k])]

SPACED_YES == StrVal(<<" ", "y", "e", "s", " ">>)

\* positions of out that printed k, among the first p lines
LinesUpTo(k, p) == {q \in 1..p : out[q].k = k}
\* positions of the flags that are true, among the first p lines
TrueFlagsUpTo(p) == {q \in 1..p : out[q].k = "Different?" /\ out[q].v = YES}

\* the programs run on one image, in call order
ProgramsOn(image) ==
  LET on == {q \in 1..Len(executed) : executed[q].image = image}
  IN [j \in 1..Cardinality(on) |-> executed[Nth(on, j)].question]

\* C3: when both answers of a question were obtained, the flag printed is
\* true exactly when the answers differ after trimming and lower-casing, Yes
\* against a spaced lower-case yes gives false, and the counter goes up by 1
\* when the flag is true and by 0 otherwise.
C3_Step ==
  pc = "compare" =>
    LET isDifferent == Normalized(left_ans) # Normalized(right_ans)
    IN /\ out' = out \o << Line("LEFT", 0, left_ans), Line("RIGHT", 0, right_ans),
                           Line("Different?", 0, IF isDifferent THEN YES ELSE NO) >>
       /\ difference_counter' = difference_counter + (IF isDifferent THEN 1 ELSE 0)
       /\ (left_ans = YES /\ right_ans = SPACED_YES) => ~isDifferent
       /\ (left_ans = YES /\ right_ans = NO) => isDifferent
C3_FlagFromNormalizedAnswers == [][C3_Step]_vars

\* C3 witness: Yes and the spaced yes were compared, the flag printed is No
\* and the counter is still 0
C3_Witness ==
  /\ pc = "total"
  /\ left_ans = YES
  /\ right_ans = SPACED_YES
  /\ left_ans.s # right_ans.s
  /\ out[Len(out)] = Line("Different?", 0, NO)
  /\ difference_counter = 0

\* C4: the total is printed once per question, in question order; each
\* printed total is the number of true flags printed before it, the totals
\* never decrease, and at the end the total is the number of true flags of
\* the whole output.
C4_RunningTotal ==
  /\ \A p \in 1..Len(out) :
       out[p].k = "TOTAL DIFFERENCES FOUND:" =>
         /\ out[p].n = Cardinality(TrueFlagsUpTo(p))
         /\ Cardinality(LinesUpTo("TOTAL DIFFERENCES FOUND:", p))
              = Cardinality(LinesUpTo("Question", p))
         /\ \A q \in 1..p : out[q].k = "TOTAL DIFFERENCES FOUND:" => out[q].n <= out[p].n
  /\ pc = "exit" =>
       /\ Cardinality(LinesUpTo("TOTAL DIFFERENCES FOUND:", Len(out))) = Len(questions)
       /\ difference_counter = Cardinality(TrueFlagsUpTo(Len(out)))
       /\ questions # <<>> => out[Len(out)] = Line("TOTAL DIFFERENCES FOUND:",
                                                   Cardinality(TrueFlagsUpTo(Len(out))), NoVal)

\* C4 witness: a finished run of three questions, one answered differently,
\* one answered alike and one that failed
C4_Witness ==
  /\ pc = "exit"
  /\ Len(questions) = 3
  /\ difference_counter = 1
  /\ Printed("Error during VisProg execution")
  /\ \E p \in 1..Len(out) : out[p] = Line("Different?", 0, NO)

\* C5: a failure of the VQA program of one question is caught inside the
\* loop: no exception leaves the loop, every question is taken up once, in
\* the order of the list, also after a failed one, each is followed by its
\* line of the running total, and the loop ends after one pass.
C5_Inv ==
  /\ raised = "none"
  /\ pc # "raised"
  /\ \A j \in 1..Cardinality(LinesUpTo("Question", Len(out))) :
       /\ j <= Len(questions)
       /\ out[Nth(LinesUpTo("Question", Len(out)), j)] = Line("Question", j, questions[j])
  /\ Len(ProgramsOn("LEFT")) = Cardinality(LinesUpTo("Question", Len(out)))
       - (IF pc = "ask_left" THEN 1 ELSE 0)
  /\ \A j \in 1..Len(ProgramsOn("LEFT")) : ProgramsOn("LEFT")[j] = questions[j]
  /\ pc = "exit" =>
       /\ ProgramsOn("LEFT") = questions
       /\ Cardinality(LinesUpTo("Question", Len(out))) = Len(questions)
       /\ Cardinality(LinesUpTo("TOTAL DIFFERENCES FOUND:", Len(out))) = Len(questions)
       /\ idx = Len(questions) + 1
C5_FailureIsolation == []C5_Inv /\ <>(pc = "exit")

\* C5 witness: the run ended, a question failed and a later question was
\* still answered on both images
C5_Witness ==
  /\ pc = "exit"
  /\ \E p \in 1..Len(out), q \in 1..Len(out) :
       /\ p < q
       /\ out[p].k = "Error during VisProg execution"
       /\ out[q].k = "Different?"

C10_Step ==
  /\ (pc = "ask_left" /\ pc' # "ask_right") =>
        /\ pc' = "total"
        /\ executed' = Append(executed, Prog("LEFT", questions[idx]))
        /\ out' = Append(out, Line("Error during VisProg execution", 0, NoVal))
        /\ UNCHANGED <<difference_counter, left_ans, right_ans>>
  /\ (pc = "ask_right" /\ pc' # "compare") =>
        /\ pc' = "total"
        /\ executed' = Append(executed, Prog("RIGHT", questions[idx]))
        /\ out' = Append(out, Line("Error during VisProg execution", 0, NoVal))
        /\ UNCHANGED <<difference_counter, left_ans, right_ans>>
  /\ pc' = "ask_right" =>
        /\ pc = "ask_left"
        /\ executed' = Append(executed, Prog("LEFT", questions[idx]))
        /\ left_ans' \in Answers
        /\ UNCHANGED out
  /\ pc' = "compare" =>
        /\ pc = "ask_right"
        /\ executed' = Append(executed, Prog("RIGHT", questions[idx]))
        /\ right_ans' \in Answers
        /\ UNCHANGED out
  /\ pc = "compare" =>
        out' = out \o << Line("LEFT", 0, left_ans), Line("RIGHT", 0, right_ans),
                         Line("Different?", 0,
                              IF Normalized(left_ans) # Normalized(right_ans)
                                THEN YES ELSE NO) >>
  /\ pc \in {"loop", "compare", "total"} => UNCHANGED executed
  /\ pc \notin {"compare"} =>
        Cardinality({q \in 1..Len(out') : out'[q].k \in {"LEFT", "RIGHT", "Different?"}})
          = Cardinality({q \in 1..Len(out) : out[q].k \in {"LEFT", "RIGHT", "Different?"}})
----------------------------------------------------------------------------
(* Properties of the whole program (Spec) *)

\* C6: when the LEFT or the RIGHT scene path does not exist, compare_images
\* fails with the not-found error of its validation and neither the
\* question generation (encoding, request) nor the evaluation is started;
\* the heatmap path is not part of that validation.
C6_ValidationBeforeAnyCall ==
  /\ (~Exists("img1") \/ ~Exists("img2")) =>
       /\ pc \in {"compare_images", "raised", "exit"}
       /\ pc # "compare_images" => (raised = "FileNotFoundError" /\ raisedLine = 151)
       /\ encoded = <<>>
       /\ posted = 0
       /\ executed = <<>>
       /\ ~Printed("Getting questions from GPT-4o Vision...")
  /\ (Exists("img1") /\ Exists("img2")) =>
       /\ raisedLine # 151
       /\ pc # "compare_images" => Printed("Getting questions from GPT-4o Vision...")

\* C6 witness: only the RIGHT scene image is missing and the run ended with
\* the not-found error, nothing encoded and nothing sent
C6_Witness ==
  /\ pc = "exit"
  /\ files = [p \in Paths |-> IF p = "img2" THEN "missing" ELSE "ok"]
  /\ raised = "FileNotFoundError"
  /\ encoded = <<>>
  /\ posted = 0

====
